---- MODULE Spec2Model ----
(***************************************************************************)
(* Semaphore, Mutex and MutexGuard of src/src/main.rs.                     *)
(*                                                                         *)
(* The atomic counter is one memory location: every compare_exchange       *)
(* reads the latest value of its modification order and a load is          *)
(* modelled as reading the latest value too.  The payload of the Mutex is  *)
(* ordinary (non-atomic) memory: what a thread may read from it is decided *)
(* by the happens-before edges the Acquire loads and Release stores of the *)
(* counter create, which the model tracks in view and cview.               *)
(***************************************************************************)
EXTENDS Integers, Sequences, FiniteSets, TLC

\* ------------------------------------------------------------- bounds
SemThreads == 2
MaxCalls == 2
MaxOps == 4
MaxArg == 2
Pairs == 2
MutexThreads == 3
Iters == 2
MaxLocks == 3
MaxInitPayload == 1
Producers == 2
Pushes == 2
\* u32::MAX of the model's word: the counter is an unsigned integer of 0..U32Max,
\* narrow enough for the threads' calls to reach the largest value
U32Max == 3

\* ------------------------------------------------- program constants
MutexCount == 0
\* a Mutex whose semaphore admits two permits
MutexMaxTwo == MutexCount + 2
MutexMax == 1

VARIABLES
    sem,        \* "unbuilt" | "init" | "new" | "aborted": how the Semaphore was built
    argCount,   \* the count argument handed to Semaphore::init
    argMax,     \* the max argument handed to Semaphore::init
    counter,    \* Semaphore.counter (AtomicU32)
    max,        \* Semaphore.max
    pc,         \* pc[t]: where thread t stands
    cur_count,  \* cur_count[t]: the local of signal() / wait()
    caller,     \* caller[t]: "direct" | "lock" | "drop", who called signal() / wait()
    sigLeft,    \* sigLeft[t]: direct signal() calls thread t still makes
    waitLeft,   \* waitLeft[t]: direct wait() calls thread t still makes
    lockLeft,   \* lockLeft[t]: lock/increment/drop iterations thread t still makes
    opsLeft,    \* calls of signal(), wait() and lock() the whole program still makes
    guards,     \* guards[t]: live MutexGuards thread t owns
    hist,       \* the payload: hist[1] is the initial value, hist[k+1] the k-th write
    view,       \* view[t]: the payload writes that happen-before thread t's next step
    cview,      \* the payload writes released through the counter's current value
    tmp,        \* tmp[t]: the payload value thread t read in its critical section
    generated_num, \* main: the values its consumer loop has popped, in order
    call,       \* call[t]: history of thread t's current or last direct signal()/wait() call
    nSig,       \* successful compare_exchange of signal() so far
    nWait,      \* successful compare_exchange of wait() so far
    relSnap,    \* the threads parked in lock() at the last Guard release's decrement,
                \* when there were two or more of them (else empty)
    sinceRel,   \* the threads whose lock() returned since that release
    relocked    \* some thread called lock() while owning a Guard

semVars == <<sem, argCount, argMax, counter, max>>
thrVars == <<pc, cur_count, caller>>
quotaVars == <<sigLeft, waitLeft, lockLeft, opsLeft>>
dataVars == <<hist, view, cview, tmp, generated_num>>
ghostVars == <<call, nSig, nWait, relSnap, sinceRel, relocked>>
vars == <<semVars, thrVars, quotaVars, guards, dataVars, ghostVars>>

\* the threads of the program
threads == DOMAIN pc

Max2(a, b) == IF a >= b THEN a ELSE b

\* u32 arithmetic of cur_count + 1 and cur_count - 1 (wrapping, as a release build)
Add1(x) == (x + 1) % (U32Max + 1)
Sub1(x) == (x + U32Max) % (U32Max + 1)

SigPcs == {"sig_block", "sig_parked", "sig_reload", "sig_cas"}
WaitPcs == {"wait_block", "wait_parked", "wait_reload", "wait_cas"}
ParkedPcs == {"sig_parked", "wait_parked"}

NoCall == [op |-> "none", first |-> FALSE, other |-> FALSE, done |-> FALSE]
\* the history a call leaves when it starts: first = its first load saw the bound
NewCall(op, c, bound) == [op |-> op, first |-> (c = bound), other |-> FALSE, done |-> FALSE]

\* the histories after thread t's compare_exchange of `op` succeeded: t's call is done,
\* and every other thread inside a call of the opposite operation has seen a change
CallAfter(t, op) ==
    [u \in threads |->
        IF call[u].op = "none" THEN call[u]
        ELSE IF u = t THEN [call[t] EXCEPT !.done = TRUE]
        ELSE IF call[u].op \notin {"none", op} /\ ~call[u].done /\ call[u].first
             THEN [call[u] EXCEPT !.other = TRUE]
             ELSE call[u]]

\* ---------------------------------------------------------- Semaphore
\* Semaphore::new
SemaphoreNew ==
    /\ sem = "unbuilt"
    /\ sem' = "new"
    /\ counter' = 0
    /\ max' = U32Max
    /\ UNCHANGED <<argCount, argMax, thrVars, quotaVars, guards, dataVars, ghostVars>>

\* an assertion that rejects count == max as well
InitAssertStrict(count, m) == count < m

\* the assertion of Semaphore::init
InitAssert(count, m) == count <= m

\* Semaphore::init(argCount, argMax)
SemaphoreInit ==
    /\ sem = "unbuilt"
    /\ IF InitAssert(argCount, argMax)
       THEN /\ sem' = "init"
            /\ counter' = argCount
            /\ max' = argMax
       ELSE /\ sem' = "aborted"
            /\ UNCHANGED <<counter, max>>
    /\ UNCHANGED <<argCount, argMax, thrVars, quotaVars, guards, dataVars, ghostVars>>

\* a signal() that blocks at 0, as wait() does, instead of at max
SigNextZero(c) == IF c = 0 THEN "sig_block" ELSE "sig_cas"

\* a signal() that blocks only above max
SigNextAbove(c) == IF c > max THEN "sig_block" ELSE "sig_cas"

\* a wait() that blocks at max, as signal() does, instead of at 0
WaitNextMax(c) == IF c = max THEN "wait_block" ELSE "wait_cas"

\* signal(): `if cur_count == self.max` decides between the block and the exchange
SigNext(c) == IF c = max THEN "sig_block" ELSE "sig_cas"

\* wait(): `if cur_count == 0` decides between the block and the exchange
WaitNext(c) == IF c = 0 THEN "wait_block" ELSE "wait_cas"

\* self.counter.load(Acquire): the loading thread now has every payload write
\* released through the value it read
AcquireView(t) == [view EXCEPT ![t] = Max2(view[t], cview)]

\* a successful compare_exchange(.., Release, Relaxed): the store releases the
\* thread's writes (and stays in the release sequence of the value it replaced);
\* the load half is Relaxed and acquires nothing
ReleaseView(t) == Max2(cview, view[t])

\* entry of signal(): `let mut cur_count = self.counter.load(Acquire)`
SigEnter(t, who) ==
    /\ cur_count' = [cur_count EXCEPT ![t] = counter]
    /\ view' = AcquireView(t)
    /\ pc' = [pc EXCEPT ![t] = SigNext(counter)]
    /\ caller' = [caller EXCEPT ![t] = who]
    /\ call' = [call EXCEPT ![t] = IF who = "direct" THEN NewCall("signal", counter, max)
                                    ELSE NoCall]

\* entry of wait(): `let mut cur_count = self.counter.load(Acquire)`
WaitEnter(t, who) ==
    /\ cur_count' = [cur_count EXCEPT ![t] = counter]
    /\ view' = AcquireView(t)
    /\ pc' = [pc EXCEPT ![t] = WaitNext(counter)]
    /\ caller' = [caller EXCEPT ![t] = who]
    /\ call' = [call EXCEPT ![t] = IF who = "direct" THEN NewCall("wait", counter, 0)
                                    ELSE NoCall]

\* a thread calls Semaphore::signal directly
Signal(t) ==
    /\ sem \in {"init", "new"}
    /\ pc[t] = "idle"
    /\ sigLeft[t] > 0
    /\ opsLeft > 0
    /\ sigLeft' = [sigLeft EXCEPT ![t] = @ - 1]
    /\ opsLeft' = opsLeft - 1
    /\ SigEnter(t, "direct")
    /\ UNCHANGED <<semVars, waitLeft, lockLeft, guards, hist, generated_num, cview, tmp,
                   nSig, nWait, relSnap, sinceRel, relocked>>

\* a thread calls Semaphore::wait directly
Wait(t) ==
    /\ sem \in {"init", "new"}
    /\ pc[t] = "idle"
    /\ waitLeft[t] > 0
    /\ opsLeft > 0
    /\ waitLeft' = [waitLeft EXCEPT ![t] = @ - 1]
    /\ opsLeft' = opsLeft - 1
    /\ WaitEnter(t, "direct")
    /\ UNCHANGED <<semVars, sigLeft, lockLeft, guards, hist, generated_num, cview, tmp,
                   nSig, nWait, relSnap, sinceRel, relocked>>

\* a block primitive that parks without comparing the counter with the expected value
BlockAlways(t, at, expected, parked, reload) ==
    /\ pc[t] = at
    /\ pc' = [pc EXCEPT ![t] = parked]
    /\ UNCHANGED <<semVars, cur_count, caller, quotaVars, guards, dataVars, ghostVars>>

\* atomic_wait::wait(&self.counter, expected): parks only if the counter still
\* holds the expected value, else returns at once
Block(t, at, expected, parked, reload) ==
    /\ pc[t] = at
    /\ pc' = [pc EXCEPT ![t] = IF counter = expected THEN parked ELSE reload]
    /\ UNCHANGED <<semVars, cur_count, caller, quotaVars, guards, dataVars, ghostVars>>

\* signal(): `wait(&self.counter, self.max)`
SigBlock(t) == Block(t, "sig_block", max, "sig_parked", "sig_reload")

\* wait(): `wait(&self.counter, 0)`
WaitBlock(t) == Block(t, "wait_block", 0, "wait_parked", "wait_reload")

\* a signal() that takes its wake-up for the permit: it stores max and returns
SigReloadAssumes(t) ==
    /\ pc[t] = "sig_reload"
    /\ counter' = max
    /\ nSig' = nSig + 1
    /\ cur_count' = [cur_count EXCEPT ![t] = 0]
    /\ IF caller[t] = "lock"
       THEN /\ pc' = [pc EXCEPT ![t] = "cs_read"]
            /\ guards' = [guards EXCEPT ![t] = @ + 1]
            /\ sinceRel' = IF relSnap = {} THEN {} ELSE sinceRel \cup {t}
       ELSE /\ pc' = [pc EXCEPT ![t] = "idle"]
            /\ UNCHANGED <<guards, sinceRel>>
    /\ UNCHANGED <<sem, argCount, argMax, max, caller, quotaVars, dataVars, call, nWait,
                   relSnap, relocked>>

\* signal(): `cur_count = self.counter.load(Acquire); continue`
SigReload(t) ==
    /\ pc[t] = "sig_reload"
    /\ cur_count' = [cur_count EXCEPT ![t] = counter]
    /\ view' = AcquireView(t)
    /\ pc' = [pc EXCEPT ![t] = SigNext(counter)]
    /\ UNCHANGED <<semVars, caller, quotaVars, guards, hist, generated_num, cview, tmp, ghostVars>>

\* wait(): `cur_count = self.counter.load(Acquire); continue`
WaitReload(t) ==
    /\ pc[t] = "wait_reload"
    /\ cur_count' = [cur_count EXCEPT ![t] = counter]
    /\ view' = AcquireView(t)
    /\ pc' = [pc EXCEPT ![t] = WaitNext(counter)]
    /\ UNCHANGED <<semVars, caller, quotaVars, guards, hist, generated_num, cview, tmp, ghostVars>>

\* the block primitive returns without a notify
Spurious(t) ==
    /\ pc[t] \in ParkedPcs
    /\ pc' = [pc EXCEPT ![t] = IF pc[t] = "sig_parked" THEN "sig_reload" ELSE "wait_reload"]
    /\ UNCHANGED <<semVars, cur_count, caller, quotaVars, guards, dataVars, ghostVars>>
\* the threads parked inside lock()
ParkedInLock == {u \in threads : pc[u] = "sig_parked" /\ caller[u] = "lock"}

\* signal() returns to its caller; Mutex::lock then builds the MutexGuard
SigReturn(t) ==
    IF caller[t] = "lock"
    THEN /\ pc' = [pc EXCEPT ![t] = "cs_read"]
         /\ guards' = [guards EXCEPT ![t] = @ + 1]
         /\ sinceRel' = IF relSnap = {} THEN {} ELSE sinceRel \cup {t}
    ELSE /\ pc' = [pc EXCEPT ![t] = "idle"]
         /\ UNCHANGED <<guards, sinceRel>>

\* wait() returns to its caller; MutexGuard::drop goes on to wake_one
WaitReturn(t) ==
    IF caller[t] = "drop"
    THEN /\ pc' = [pc EXCEPT ![t] = "drop_wake"]
         /\ guards' = [guards EXCEPT ![t] = @ - 1]
         /\ relSnap' = IF Cardinality(ParkedInLock) >= 2 THEN ParkedInLock ELSE {}
         /\ sinceRel' = {}
    ELSE /\ pc' = [pc EXCEPT ![t] = "idle"]
         /\ UNCHANGED <<guards, relSnap, sinceRel>>

\* signal(): compare_exchange(cur_count, cur_count + 1, Release, Relaxed), where
\* `same` is the comparison of the exchange and `new` the value it stores
SigExchange(t, same, new) ==
    /\ pc[t] = "sig_cas"
    /\ IF same
       THEN /\ counter' = new
            /\ cview' = ReleaseView(t)
            /\ nSig' = nSig + 1
            /\ call' = CallAfter(t, "signal")
            /\ cur_count' = [cur_count EXCEPT ![t] = 0]
            /\ SigReturn(t)
            /\ UNCHANGED relSnap
       ELSE /\ cur_count' = [cur_count EXCEPT ![t] = counter]
            /\ pc' = [pc EXCEPT ![t] = SigNext(counter)]
            /\ UNCHANGED <<counter, cview, nSig, call, guards, relSnap, sinceRel>>
    /\ UNCHANGED <<sem, argCount, argMax, max, caller, quotaVars, hist, generated_num, view, tmp,
                   nWait, relocked>>

\* a signal() that adds to the counter without comparing it with cur_count
SigCasFetchAdd(t) == SigExchange(t, TRUE, Add1(counter))

\* a signal() that stores cur_count + 1 without comparing the counter with cur_count
SigCasBlindStore(t) == SigExchange(t, TRUE, Add1(cur_count[t]))

\* signal(): `match self.counter.compare_exchange(cur_count, cur_count + 1, ..)`
SigCas(t) == SigExchange(t, counter = cur_count[t], Add1(cur_count[t]))

\* wait(): compare_exchange(cur_count, cur_count - 1, Release, Relaxed)
WaitExchange(t, same, new) ==
    /\ pc[t] = "wait_cas"
    /\ IF same
       THEN /\ counter' = new
            /\ cview' = ReleaseView(t)
            /\ nWait' = nWait + 1
            /\ call' = CallAfter(t, "wait")
            /\ cur_count' = [cur_count EXCEPT ![t] = 0]
            /\ WaitReturn(t)
       ELSE /\ cur_count' = [cur_count EXCEPT ![t] = counter]
            /\ pc' = [pc EXCEPT ![t] = WaitNext(counter)]
            /\ UNCHANGED <<counter, cview, nWait, call, guards, relSnap, sinceRel>>
    /\ UNCHANGED <<sem, argCount, argMax, max, caller, quotaVars, hist, generated_num, view, tmp,
                   nSig, relocked>>

\* a wait() whose exchange stores cur_count back instead of cur_count - 1
WaitCasSame(t) == WaitExchange(t, counter = cur_count[t], cur_count[t])

\* wait(): `match self.counter.compare_exchange(cur_count, cur_count - 1, ..)`
WaitCas(t) == WaitExchange(t, counter = cur_count[t], Sub1(cur_count[t]))

\* -------------------------------------------------- Mutex, MutexGuard
\* Mutex::lock: `self.semaphore.signal()`
Lock(t) ==
    /\ sem = "init"
    /\ pc[t] = "idle"
    /\ lockLeft[t] > 0
    /\ opsLeft > 0
    /\ lockLeft' = [lockLeft EXCEPT ![t] = @ - 1]
    /\ opsLeft' = opsLeft - 1
    /\ SigEnter(t, "lock")
    /\ UNCHANGED <<semVars, sigLeft, waitLeft, guards, hist, generated_num, cview, tmp,
                   nSig, nWait, relSnap, sinceRel, relocked>>

\* Mutex::lock called by a thread that owns the MutexGuard of the same Mutex
Relock(t) ==
    /\ pc[t] = "cs_read"
    /\ guards[t] = 1
    /\ relocked' = TRUE
    /\ SigEnter(t, "lock")
    /\ UNCHANGED <<semVars, quotaVars, guards, hist, generated_num, cview, tmp,
                   nSig, nWait, relSnap, sinceRel>>

\* the payload writes a read by thread t may return: the last one when every write
\* happens-before the read, and otherwise (a data race) any write not yet ordered
\* before it
Readable(t) == {hist[i + 1] : i \in view[t]..(Len(hist) - 1)}

\* Deref::deref through the guard: the read of `*guard`
ReadPayload(t) ==
    /\ pc[t] = "cs_read"
    /\ \E v \in Readable(t) : tmp' = [tmp EXCEPT ![t] = v]
    /\ pc' = [pc EXCEPT ![t] = "cs_write"]
    /\ UNCHANGED <<semVars, cur_count, caller, quotaVars, guards, hist, generated_num, view, cview,
                   ghostVars>>

\* DerefMut::deref_mut through the guard: the write of the value read, plus one
WritePayload(t) ==
    /\ pc[t] = "cs_write"
    /\ hist' = Append(hist, tmp[t] + 1)
    /\ view' = [view EXCEPT ![t] = Len(hist)]
    /\ tmp' = [tmp EXCEPT ![t] = 0]
    /\ pc' = [pc EXCEPT ![t] = "cs_drop"]
    /\ UNCHANGED <<semVars, cur_count, caller, quotaVars, guards, cview, generated_num,
                   ghostVars>>

\* a drop that calls wake_one without the wait() before it
DropNotifyFirst(t) ==
    /\ pc[t] = "cs_drop"
    /\ pc' = [pc EXCEPT ![t] = "drop_wake"]
    /\ UNCHANGED <<semVars, cur_count, caller, quotaVars, guards, dataVars, ghostVars>>

\* MutexGuard::drop: `self.mutex.semaphore.wait()`
Drop(t) ==
    /\ pc[t] = "cs_drop"
    /\ WaitEnter(t, "drop")
    /\ UNCHANGED <<semVars, quotaVars, guards, hist, generated_num, cview, tmp,
                   nSig, nWait, relSnap, sinceRel, relocked>>

\* the threads parked on the counter
Parked == {u \in threads : pc[u] \in ParkedPcs}

\* atomic_wait::wake_one: one parked thread, any of them, returns from its block
WakeOneOf(t, ws) ==
    /\ pc[t] = "drop_wake"
    /\ IF ws = {}
       THEN pc' = [pc EXCEPT ![t] = "idle"]
       ELSE \E u \in ws :
               pc' = [pc EXCEPT ![t] = "idle",
                                ![u] = IF pc[u] = "sig_parked" THEN "sig_reload"
                                       ELSE "wait_reload"]
    /\ UNCHANGED <<semVars, cur_count, caller, quotaVars, guards, dataVars, ghostVars>>

\* a drop whose wake_one reaches no thread
WakeNobody(t) == WakeOneOf(t, {})

\* MutexGuard::drop: `wake_one(&self.mutex.semaphore.counter)`
WakeOne(t) == WakeOneOf(t, Parked)
\* ------------------------------------------------------ initial states
\* the threads, locals, payload and histories before any thread has run
Fresh(ts) ==
    /\ pc = [t \in ts |-> "idle"]
    /\ cur_count = [t \in ts |-> 0]
    /\ caller = [t \in ts |-> "direct"]
    /\ guards = [t \in ts |-> 0]
    /\ view = [t \in ts |-> 0]
    /\ cview = 0
    /\ tmp = [t \in ts |-> 0]
    /\ generated_num = <<>>
    /\ call = [t \in ts |-> NoCall]
    /\ nSig = 0
    /\ nWait = 0
    /\ relSnap = {}
    /\ sinceRel = {}
    /\ relocked = FALSE

\* a program about to build a Semaphore with init(argCount, argMax) or new(); its
\* threads then call signal() and wait() in any order
InitSem ==
    /\ sem = "unbuilt"
    /\ argCount \in 0..MaxArg
    /\ argMax \in 0..MaxArg
    /\ counter = 0
    /\ max = 0
    /\ Fresh(1..SemThreads)
    /\ sigLeft = [t \in 1..SemThreads |-> MaxCalls]
    /\ waitLeft = [t \in 1..SemThreads |-> MaxCalls]
    /\ lockLeft = [t \in 1..SemThreads |-> 0]
    /\ opsLeft = MaxOps
    /\ hist = <<0>>

\* threads 1..Pairs make MaxCalls signal() calls each, the others as many wait() calls
InitPaired ==
    /\ sem = "unbuilt"
    /\ argCount \in 0..MaxArg
    /\ argMax \in 0..MaxArg
    /\ counter = 0
    /\ max = 0
    /\ Fresh(1..(2 * Pairs))
    /\ sigLeft = [t \in 1..(2 * Pairs) |-> IF t <= Pairs THEN MaxCalls ELSE 0]
    /\ waitLeft = [t \in 1..(2 * Pairs) |-> IF t <= Pairs THEN 0 ELSE MaxCalls]
    /\ lockLeft = [t \in 1..(2 * Pairs) |-> 0]
    /\ opsLeft = 2 * Pairs * MaxCalls
    /\ hist = <<0>>

\* Mutex::new(value): `semaphore: Semaphore::init(0, 1)`, `data: UnsafeCell::new(value)`;
\* every thread then makes Iters iterations of lock, read, write, drop
InitMutex ==
    /\ sem = "init"
    /\ argCount = MutexCount
    /\ argMax = MutexMax
    /\ counter = MutexCount
    /\ max = MutexMax
    /\ Fresh(1..MutexThreads)
    /\ sigLeft = [t \in 1..MutexThreads |-> 0]
    /\ waitLeft = [t \in 1..MutexThreads |-> 0]
    /\ lockLeft = [t \in 1..MutexThreads |-> Iters]
    /\ opsLeft = MaxLocks
    /\ \E v \in 0..MaxInitPayload : hist = <<v>>

\* ------------------------------------------------------ specifications
\* one step of signal() or wait() past its entry
SemStep(t) ==
    \/ SigBlock(t)
    \/ SigReload(t)
    \/ SigCas(t)
    \/ WaitBlock(t)
    \/ WaitReload(t)
    \/ WaitCas(t)

\* a step of the wait() that MutexGuard::drop calls
DropStep(t) ==
    /\ caller[t] = "drop"
    /\ CASE pc[t] = "wait_block" -> WaitBlock(t)
         [] pc[t] = "wait_reload" -> WaitReload(t)
         [] pc[t] = "wait_cas" -> WaitCas(t)
         [] OTHER -> FALSE

\* a step of a thread that uses the Mutex
MutexStep(t) ==
    \/ Lock(t)
    \/ SigBlock(t)
    \/ SigReload(t)
    \/ SigCas(t)
    \/ ReadPayload(t)
    \/ WritePayload(t)
    \/ Drop(t)
    \/ DropStep(t)
    \/ WakeOne(t)

NextSem ==
    \/ SemaphoreNew
    \/ SemaphoreInit
    \/ \E t \in 1..SemThreads : Signal(t) \/ Wait(t) \/ SemStep(t) \/ Spurious(t)

NextPaired ==
    \/ SemaphoreInit
    \/ \E t \in 1..(2 * Pairs) : Signal(t) \/ Wait(t) \/ SemStep(t)

NextMutex == \E t \in 1..MutexThreads : MutexStep(t) \/ Spurious(t)

NextReentrant == \E t \in 1..MutexThreads : MutexStep(t) \/ Spurious(t) \/ Relock(t)

\* the Semaphore used directly, the block primitive returning spuriously at will
Spec == InitSem /\ [][NextSem]_vars

\* the Semaphore used directly by signalling and waiting threads, every thread
\* scheduled fairly and a parked thread resuming only through a notify
SpecPaired == InitPaired /\ [][NextPaired]_vars /\ WF_vars(NextPaired)

\* threads incrementing the payload of one Mutex
SpecMutex == InitMutex /\ [][NextMutex]_vars

\* the same, where a thread may call lock() again while it owns the guard
SpecReentrant == InitMutex /\ [][NextReentrant]_vars

\* the threads of the Mutex, a parked thread resuming only through wake_one
NextMutexFair == \E t \in 1..MutexThreads : MutexStep(t)

\* threads incrementing the payload of one Mutex, every thread scheduled fairly and
\* the block primitive returning only on a notify or a changed counter
SpecMutexFair ==
    /\ InitMutex
    /\ [][NextMutexFair]_vars
    /\ \A t \in 1..MutexThreads : WF_vars(MutexStep(t))
\* ------------------------------------------------ main: producers, consumer
\* the main thread; threads 1..Producers are the threads the scope spawns
Main == Producers + 1

\* the numbers the program pushes, told apart by producer and iteration
Items == {<<p, j>> : p \in 1..Producers, j \in 1..Pushes}

\* `mutex.lock().push_back(num)`: the write of the queue read, num added at the back
PushBack(t) ==
    /\ pc[t] = "cs_write"
    /\ hist' = Append(hist, Append(tmp[t], <<t, Pushes - lockLeft[t]>>))
    /\ view' = [view EXCEPT ![t] = Len(hist)]
    /\ tmp' = [tmp EXCEPT ![t] = 0]
    /\ pc' = [pc EXCEPT ![t] = "cs_drop"]
    /\ UNCHANGED <<semVars, cur_count, caller, quotaVars, guards, cview, generated_num,
                   ghostVars>>

\* every spawned thread has made its pushes and returned
Joinable == \A p \in 1..Producers : pc[p] = "idle" /\ lockLeft[p] = 0

\* the end of thread::scope: main joins every spawned thread, so all their writes
\* happen-before what main does next
ScopeJoin ==
    /\ pc[Main] = "scope"
    /\ Joinable
    /\ pc' = [pc EXCEPT ![Main] = "idle"]
    /\ view' = [view EXCEPT ![Main] = Len(hist) - 1]
    /\ UNCHANGED <<semVars, cur_count, caller, quotaVars, guards, hist, cview, tmp,
                   generated_num, ghostVars>>

\* `while counter < 1000 { .. mutex.lock() ..`: counter is the number of values popped
MainLock ==
    /\ Len(generated_num) < Producers * Pushes
    /\ Lock(Main)

\* `if let Some(generated_num) = ..pop_front() { counter += 1 }`: an empty queue is
\* left as it is, else its front is taken off and counted
PopFront ==
    /\ pc[Main] = "cs_write"
    /\ IF tmp[Main] = <<>>
       THEN UNCHANGED <<hist, view, generated_num>>
       ELSE /\ hist' = Append(hist, Tail(tmp[Main]))
            /\ view' = [view EXCEPT ![Main] = Len(hist)]
            /\ generated_num' = Append(generated_num, Head(tmp[Main]))
    /\ tmp' = [tmp EXCEPT ![Main] = 0]
    /\ pc' = [pc EXCEPT ![Main] = "cs_drop"]
    /\ UNCHANGED <<semVars, cur_count, caller, quotaVars, guards, cview, ghostVars>>

\* `Mutex::new(VecDeque::new())`, the spawned threads about to make Pushes pushes each
\* and main inside thread::scope; main's loop is followed for as many iterations as
\* there are numbers to pop
InitQueue ==
    /\ sem = "init"
    /\ argCount = MutexCount
    /\ argMax = MutexMax
    /\ counter = MutexCount
    /\ max = MutexMax
    /\ pc = [t \in 1..Main |-> IF t = Main THEN "scope" ELSE "idle"]
    /\ cur_count = [t \in 1..Main |-> 0]
    /\ caller = [t \in 1..Main |-> "direct"]
    /\ sigLeft = [t \in 1..Main |-> 0]
    /\ waitLeft = [t \in 1..Main |-> 0]
    /\ lockLeft = [t \in 1..Main |-> IF t = Main THEN Producers * Pushes ELSE Pushes]
    /\ opsLeft = 2 * Producers * Pushes
    /\ guards = [t \in 1..Main |-> 0]
    /\ hist = << <<>> >>
    /\ view = [t \in 1..Main |-> 0]
    /\ cview = 0
    /\ tmp = [t \in 1..Main |-> 0]
    /\ generated_num = <<>>
    /\ call = [t \in 1..Main |-> NoCall]
    /\ nSig = 0
    /\ nWait = 0
    /\ relSnap = {}
    /\ sinceRel = {}
    /\ relocked = FALSE

\* a step of lock() or of the guard's drop, by a spawned thread or by main
GuardStep(t) ==
    \/ SigBlock(t)
    \/ SigReload(t)
    \/ SigCas(t)
    \/ ReadPayload(t)
    \/ Drop(t)
    \/ DropStep(t)
    \/ WakeOne(t)
    \/ Spurious(t)

NextQueue ==
    \/ \E t \in 1..Producers : Lock(t) \/ PushBack(t)
    \/ ScopeJoin
    \/ MainLock
    \/ PopFront
    \/ \E t \in 1..(Producers + 1) : GuardStep(t)

\* main of src/src/main.rs: the producers, then the consumer loop
SpecQueue == InitQueue /\ [][NextQueue]_vars

\* ------------------------------------------------------------- claims
\* the number of live MutexGuards: a guard is live from the return of lock() to the
\* decrement of its drop
LiveGuards == Cardinality({t \in threads : guards[t] > 0})

\* C1: under every interleaving of lock() calls and guard drops, spurious returns of
\* the block primitive included, at most one thread owns a live MutexGuard, and no
\* thread owns two.
C1_MutualExclusion ==
    /\ LiveGuards <= 1
    /\ \A t \in threads : guards[t] <= 1

\* C1's case: one thread owns the guard while a second is between the decrement and
\* the wake_one of its release and a third is parked in lock()
C1_Witness ==
    \E t, u, w \in threads :
        /\ guards[t] = 1
        /\ pc[u] = "drop_wake"
        /\ pc[w] = "sig_parked"

\* C3: a Semaphore built by init(c, m) keeps 0 <= counter <= m in every state, whatever
\* the interleaving of signal() and wait() and the spurious wake-ups.
C3_CounterInRange ==
    sem = "init" => (0 <= counter /\ counter <= max /\ max = argMax)

\* C3's case: signal() calls have filled the counter to max and a further signal() is
\* parked, and wait() calls have succeeded too
C3_Witness ==
    /\ sem = "init"
    /\ max > 0
    /\ counter = max
    /\ nSig > 0
    /\ nWait > 0
    /\ \E t \in threads : pc[t] = "sig_parked"

\* C5: a signal() whose first load saw counter == max has not returned unless the
\* wait() of another thread decremented the counter during the call.
C5_SignalAtMaxNeedsWait ==
    \A t \in threads :
        (call[t].op = "signal" /\ call[t].first /\ call[t].done) => call[t].other

\* C5's case: such a signal() has returned, after a decrement by another thread
C5_Witness ==
    \E t \in threads :
        call[t].op = "signal" /\ call[t].first /\ call[t].done /\ call[t].other

\* C6: a wait() whose first load saw counter == 0 has not returned unless the signal()
\* of another thread incremented the counter during the call.
C6_WaitAtZeroNeedsSignal ==
    \A t \in threads :
        (call[t].op = "wait" /\ call[t].first /\ call[t].done) => call[t].other

\* C6's case: such a wait() has returned, after an increment by another thread
C6_Witness ==
    \E t \in threads :
        call[t].op = "wait" /\ call[t].first /\ call[t].done /\ call[t].other

\* C9: Semaphore::init(count, max) aborts exactly when count > max, and otherwise
\* builds a Semaphore whose counter is count and whose max is max.
C9_InitAbortsIffCountAboveMax ==
    [][(sem = "unbuilt" /\ sem' \in {"init", "aborted"}) =>
          /\ (sem' = "aborted") <=> (argCount > argMax)
          /\ (sem' = "init") => (counter' = argCount /\ max' = argMax)]_vars

\* C9's case: init with count == max > 0 has built the Semaphore, counter at count
C9_Witness ==
    /\ sem = "init"
    /\ argCount = argMax
    /\ argCount > 0
    /\ counter = argCount
    /\ nSig = 0
    /\ nWait = 0
\* every thread has made all its calls and returned from the last one
Finished ==
    \A t \in threads :
        /\ pc[t] = "idle"
        /\ opsLeft = 0 \/ (sigLeft[t] = 0 /\ waitLeft[t] = 0 /\ lockLeft[t] = 0)

\* the payload's value: its last write
Payload == hist[Len(hist)]

\* C2: once every thread has finished its iterations of lock, read, write back the
\* value plus one, drop, the payload is its initial value plus the number of
\* iterations made: no increment is lost.
C2_NoLostIncrement ==
    Finished => Payload = hist[1] + nWait

\* C4: with m >= 1, threads making signal() calls and as many wait() calls in all
\* never stall for good: while a call has not returned, some thread can take a step
\* (a parked thread only through a notify).
C4_NoPermanentStall ==
    (sem = "init" /\ max >= 1) => (Finished \/ ENABLED NextPaired)

\* C7: after a guard release made while two or more threads were parked in lock(), at
\* most one thread returns from lock() before the next release, and the threads that
\* were parked never own a guard at the same time.
C7_SingleWaiterWakeup ==
    relSnap # {} =>
        /\ Cardinality(sinceRel) <= 1
        /\ Cardinality({t \in relSnap : guards[t] > 0}) <= 1

\* C7's case: the release found two threads parked; one of them has returned from
\* lock() and owns the guard, the other is parked
C7_Witness ==
    /\ Cardinality(relSnap) = 2
    /\ \E a, b \in relSnap :
          /\ a # b
          /\ sinceRel = {a}
          /\ guards[a] = 1
          /\ pc[b] = "sig_parked"

\* C8: every payload write made under an earlier guard happens-before the accesses
\* of the thread whose lock() has returned.
C8_WritesVisibleToNextOwner ==
    \A t \in threads : guards[t] > 0 => view[t] = Len(hist) - 1

\* C10: once a thread has called lock() while it owns the guard, no lock() returns any
\* more: neither that call nor the lock() of any other thread.
C10_SelfDeadlock ==
    [][relocked => nSig' = nSig]_vars

\* C10's case: the owner of the guard is parked in its second lock(), and so is
\* another thread
C10_Witness ==
    /\ relocked
    /\ \E t, u \in threads :
          /\ t # u
          /\ guards[t] = 1
          /\ pc[t] = "sig_parked"
          /\ pc[u] = "sig_parked"
\* the only changes of a Mutex's counter: 0 to 1 with a lock() that returns, 1 to 0
\* with the decrement of a guard's drop
MutexCounterStep ==
    counter' # counter =>
        \/ /\ counter = 0
           /\ counter' = 1
           /\ nSig' = nSig + 1
           /\ nWait' = nWait
           /\ \E t \in threads : guards[t] = 0 /\ guards'[t] = 1
        \/ /\ counter = 1
           /\ counter' = 0
           /\ nWait' = nWait + 1
           /\ nSig' = nSig
           /\ \E t \in threads : guards[t] = 1 /\ guards'[t] = 0

LockStep(t) ==
    /\ (pc[t] = "sig_block" /\ pc'[t] # "sig_block") =>
          /\ (pc'[t] = "sig_parked") <=> (counter = 1)
          /\ (pc'[t] = "sig_reload") <=> (counter = 0)
    /\ (pc'[t] = "sig_parked" /\ pc[t] # "sig_parked") =>
          (pc[t] = "sig_block" /\ counter = 1)
    /\ (guards'[t] > guards[t]) =>
          /\ pc[t] = "sig_cas"
          /\ cur_count[t] = 0
          /\ counter = 0
          /\ counter' = 1

\* C13: the block primitive of lock() suspends the caller exactly when the counter is
\* 1 at the park (at 0 it returns at once), and a lock() returns only with the
\* caller's own successful compare_exchange of the counter from 0 to 1.
C13_BlocksExactlyWhenLocked ==
    [][\A t \in threads : LockStep(t)]_vars

\* C13's case: a thread that saw 1 came to park after the release's decrement and,
\* the counter being 0, was not suspended, while another thread is parked
C13_Witness ==
    \E t, u, w \in threads :
        /\ pc[t] = "sig_reload"
        /\ cur_count[t] = 1
        /\ counter = 0
        /\ pc[u] = "drop_wake"
        /\ pc[w] = "sig_parked"

\* the counter a Semaphore starts with
StartCount == IF sem = "new" THEN 0 ELSE argCount

\* the only changes of a Semaphore's counter: by one, with a successful exchange
SemCounterStep ==
    sem \in {"init", "new"} =>
        \/ counter' = counter /\ nSig' = nSig /\ nWait' = nWait
        \/ counter' = counter + 1 /\ nSig' = nSig + 1 /\ nWait' = nWait
        \/ counter' = counter - 1 /\ nSig' = nSig /\ nWait' = nWait + 1

\* C14: the counter is the initial count plus the successful exchanges of signal()
\* minus those of wait(); every successful exchange changes it by exactly one, and
\* no other step (a failed exchange, a park, a wake-up) changes it.
C14_NoLostUpdate ==
    /\ [](sem \in {"init", "new"} => counter = StartCount + nSig - nWait)
    /\ [][SemCounterStep]_vars

\* C14's case: exchanges of both kinds have succeeded and one has just failed (the
\* thread's cur_count is the value the failed exchange returned)
C14_Witness ==
    /\ sem = "init"
    /\ nSig >= 2
    /\ nWait >= 1
    /\ counter = StartCount + nSig - nWait
    /\ \E t \in threads : pc[t] = "wait_block" /\ call[t].op = "wait" /\ ~call[t].first

\* C16: the wait() that MutexGuard::drop calls never parks and never retries: all
\* through it the counter is 1 and equal to the value loaded, so its first exchange
\* succeeds; the drop then stands at its single wake_one.
C16_ReleaseNeverBlocks ==
    \A t \in threads :
        /\ (caller[t] = "drop" /\ pc[t] \in WaitPcs) =>
              (pc[t] = "wait_cas" /\ cur_count[t] = 1 /\ counter = 1)
        /\ pc[t] = "drop_wake" => (caller[t] = "drop" /\ guards[t] = 0)

\* C16's case: a release is at its exchange while one thread is parked in lock() and
\* another is about to park
C16_Witness ==
    \E t, u, w \in threads :
        /\ caller[t] = "drop"
        /\ pc[t] = "wait_cas"
        /\ pc[u] = "sig_parked"
        /\ pc[w] = "sig_block"

\* C17 as stated: when a release issues its notify_one the counter is 0.
C17_CounterZeroAtNotify ==
    \A t \in threads : pc[t] = "drop_wake" => counter = 0

\* C17, amended: when a release issues its notify_one its own decrement has taken
\* effect: the releasing thread owns no guard, and the counter is 0 unless another
\* thread has acquired the Mutex since the decrement.
C17_DecrementBeforeNotify ==
    \A t \in threads :
        pc[t] = "drop_wake" =>
            /\ guards[t] = 0
            /\ counter = LiveGuards
            /\ counter = 0 \/ \E u \in threads \ {t} : guards[u] = 1

\* C17's case: between the decrement and the notify_one of a release another thread
\* has taken the Mutex, and a thread is parked for the notify to wake
C17_Witness ==
    \E t, u, w \in threads :
        /\ pc[t] = "drop_wake"
        /\ guards[u] = 1
        /\ counter = 1
        /\ pc[w] = "sig_parked"

\* C18: signal() adds one only to a cur_count below max and wait() subtracts one only
\* from a cur_count above 0, so neither wraps, for a Semaphore of new() too.
C18_NoWrap ==
    \A t \in threads :
        /\ pc[t] = "sig_cas" =>
              (cur_count[t] < max /\ max <= U32Max /\ Add1(cur_count[t]) = cur_count[t] + 1)
        /\ pc[t] = "wait_cas" =>
              (cur_count[t] > 0 /\ Sub1(cur_count[t]) = cur_count[t] - 1)

\* C18's case: a Semaphore of new() whose counter has reached u32::MAX, a further
\* signal() parked on it
C18_Witness ==
    /\ sem = "new"
    /\ counter = U32Max
    /\ nSig = U32Max
    /\ \E t \in threads : pc[t] = "sig_parked"
\* thread t is inside lock()
InLock(t) == caller[t] = "lock" /\ pc[t] \in SigPcs

\* a lost wake-up: the Mutex is free and a thread is parked in lock(), yet no thread
\* is due to issue a notify or to go on to the acquiring exchange
LostWakeup ==
    /\ counter = 0
    /\ \E t \in threads : pc[t] = "sig_parked"
    /\ \A u \in threads : pc[u] \notin {"drop_wake", "sig_block", "sig_reload", "sig_cas"}

\* C15: under fair scheduling and without spurious wake-ups no lost wake-up is
\* reachable, and whenever a thread is inside lock() some lock() eventually returns.
C15_NoLostWakeup ==
    /\ []~LostWakeup
    /\ \A n \in 0..MaxLocks :
          ((\E t \in 1..MutexThreads : InLock(t)) /\ nSig = n) ~> (nSig > n)

\* C15's case: after a release the Mutex is free, its notify has woken one of two
\* parked threads, which is due to retry, and the other is still parked
C15_Witness ==
    /\ counter = 0
    /\ nWait > 0
    /\ \E t, w \in threads :
          /\ pc[t] = "sig_reload"
          /\ pc[w] = "sig_parked"
    /\ \A u \in threads : pc[u] # "drop_wake"

\* the queue as its last write left it
Queue == hist[Len(hist)]

\* the values main has popped are every pushed number, each exactly once
AllRetrieved ==
    /\ Len(generated_num) = Producers * Pushes
    /\ {generated_num[i] : i \in 1..Len(generated_num)} = Items

\* C11: every execution of the producer/consumer program ends with the consumer having
\* retrieved exactly Producers * Pushes numbers, each pushed number once, and the queue
\* empty: so whenever main stands at the head of its loop with every producer joined
\* and the queue empty, it has retrieved them all (else no later pop returns a number
\* and the loop never ends).
C11_AllItemsRetrieved ==
    (pc[Main] = "idle" /\ Queue = <<>>) => AllRetrieved
====
